---- MODULE Spec2Model ----
(***************************************************************************)
(* Logical clocks of memo_core (src/memo_core/src/time.rs): the per-replica *)
(* counter Local, the Lamport stamp and the vector clock Global.            *)
(*                                                                         *)
(* A ReplicaId (a 16-byte Uuid, ordered bytewise) is modelled by a small    *)
(* integer with the same order.  A u64 is modelled by 0..U64Max: the width  *)
(* is scaled down, the arithmetic is kept (an addition whose result exceeds *)
(* U64Max overflows).  Rust decides what an overflowing `+` does by the     *)
(* build: with overflow checks (the dev profile) it panics, without them    *)
(* (the release profile) it wraps.  overflow_checks holds the build.        *)
(***************************************************************************)
EXTENDS Integers, Sequences, FiniteSets, TLC

\* ---- bounds of the model ----
\* the largest u64 (the scaled-down stand-in of 2^64 - 1)
U64Max == 5
\* the number of replica ids
NumReplicas == 2

Replicas == 1..NumReplicas
U64 == 0..U64Max
Modulus == U64Max + 1

VARIABLES
    overflow_checks,  \* the build: TRUE = arithmetic overflow panics, FALSE = it wraps
    panicked,         \* a call has panicked
    last,             \* the last call: its name, arguments, the state before it, its result
    local,            \* one Local clock
    prev_tick,        \* the timestamps local's tick has returned, oldest first (capped)
    observed_seq,     \* the highest seq of its own replica local has observed (-1: none)
    lamport,          \* one Lamport clock
    global,           \* a Global clock `self`: the map ReplicaId -> u64 behind its Arc
    other,            \* a second Global clock: the map behind its Arc
    shared,           \* TRUE: both clocks hold the same Arc (one is a clone of the other)
    lamports,         \* the Lamport clock of every replica of a system of replicas
    stamps,           \* the stamps the replicas' Lamport::tick calls have returned
    reissued,         \* the stamps that more than one Lamport::tick call has returned
    locals,           \* the Local clock of every replica
    globals,          \* the Global clock (its map) of every replica
    timestamps,       \* the timestamps the replicas' Local::tick calls have returned
    past,             \* per replica, the stamps that happened before its next operation
    input,            \* the argument of a call of a pure function
    network,          \* a tests::Network: its inboxes and all_messages
    hist              \* what the Network's callers have sent and been handed so far

vars == <<overflow_checks, panicked, last, local, prev_tick, observed_seq, lamport,
          global, other, shared, lamports, stamps, reissued, locals, globals, timestamps,
          past, input, network, hist>>
extraVars == <<past, input, network, hist>>
lamportNetVars == <<lamports, stamps, reissued>>
replicaVars == <<locals, globals, timestamps>>
clockVars == <<local, prev_tick, observed_seq, lamport>>
globalVars == <<global, other, shared>>

Max(a, b) == IF a >= b THEN a ELSE b

\* cmp::max(a, b) on u64
CmpMax(a, b) == IF a > b THEN a ELSE b

\* a + 1 on u64: the result and whether it overflowed
OverflowsAdd1(n) == n + 1 > U64Max
WrappingAdd1(n) == (n + 1) % Modulus

\* ---- Local ----
LocalNew(replica_id) == [replica_id |-> replica_id, value |-> 1]

\* a tick that increments first and returns the incremented clock
MutantLocalTickReturnsNew(self, checks) ==
    IF checks /\ OverflowsAdd1(self.value)
    THEN [panic |-> TRUE, overflow |-> TRUE, self |-> self, ret |-> self]
    ELSE [panic |-> FALSE, overflow |-> OverflowsAdd1(self.value),
          self |-> [self EXCEPT !.value = WrappingAdd1(self.value)],
          ret |-> [self EXCEPT !.value = WrappingAdd1(self.value)]]

\* Local::tick: `let timestamp = *self; self.value += 1; timestamp`
LocalTick(self, checks) ==
    IF checks /\ OverflowsAdd1(self.value)
    THEN [panic |-> TRUE, overflow |-> TRUE, self |-> self, ret |-> self]
    ELSE [panic |-> FALSE, overflow |-> OverflowsAdd1(self.value),
          self |-> [self EXCEPT !.value = WrappingAdd1(self.value)], ret |-> self]

\* Local::observe
LocalObserve(self, timestamp, checks) ==
    IF timestamp.replica_id = self.replica_id
    THEN IF checks /\ OverflowsAdd1(timestamp.value)
         THEN [panic |-> TRUE, overflow |-> TRUE, self |-> self]
         ELSE [panic |-> FALSE, overflow |-> OverflowsAdd1(timestamp.value),
               self |-> [self EXCEPT !.value = CmpMax(self.value, WrappingAdd1(timestamp.value))]]
    ELSE [panic |-> FALSE, overflow |-> FALSE, self |-> self]

\* ---- Lamport ----
LamportNew(replica_id) == [value |-> 1, replica_id |-> replica_id]

\* Lamport::tick
LamportTick(self, checks) ==
    IF checks /\ OverflowsAdd1(self.value)
    THEN [panic |-> TRUE, overflow |-> TRUE, self |-> self, ret |-> self]
    ELSE [panic |-> FALSE, overflow |-> OverflowsAdd1(self.value),
          self |-> [self EXCEPT !.value = WrappingAdd1(self.value)], ret |-> self]

\* an observe that takes the larger value without stepping past it
MutantLamportObserveNoStep(self, timestamp, checks) ==
    [panic |-> FALSE, overflow |-> FALSE,
     self |-> [self EXCEPT !.value = CmpMax(self.value, timestamp.value)]]

\* Lamport::observe
LamportObserve(self, timestamp, checks) ==
    LET m == CmpMax(self.value, timestamp.value)
    IN IF checks /\ OverflowsAdd1(m)
       THEN [panic |-> TRUE, overflow |-> TRUE, self |-> self]
       ELSE [panic |-> FALSE, overflow |-> OverflowsAdd1(m),
             self |-> [self EXCEPT !.value = WrappingAdd1(m)]]

\* ---- Global ----
\* the u64 values the Global clocks of the model hold
MaxSeq == 2
Seqs == 0..MaxSeq

\* HashMap::new()
GlobalNew == [r \in {} |-> 0]

\* Global::get: `*self.0.get(&replica_id).unwrap_or(&0)`
GlobalGet(self, replica_id) == IF replica_id \in DOMAIN self THEN self[replica_id] ELSE 0

\* an observe that inserts a missing key and never raises an existing one
MutantGlobalObserveInsertOnly(self, timestamp) ==
    [r \in DOMAIN self \cup {timestamp.replica_id} |->
        IF r \in DOMAIN self THEN self[r] ELSE timestamp.value]

\* an observe that stores the timestamp's value without taking the maximum
MutantGlobalObserveOverwrite(self, timestamp) ==
    [r \in DOMAIN self \cup {timestamp.replica_id} |->
        IF r = timestamp.replica_id THEN timestamp.value ELSE self[r]]

\* Global::observe: `entry(replica_id).or_insert(0)`, then `*value = max(*value, timestamp.value)`
GlobalObserve(self, timestamp) ==
    LET value == IF timestamp.replica_id \in DOMAIN self THEN self[timestamp.replica_id] ELSE 0
    IN [r \in DOMAIN self \cup {timestamp.replica_id} |->
           IF r = timestamp.replica_id THEN CmpMax(value, timestamp.value) ELSE self[r]]

\* the orders in which a HashMap with key set S may be iterated
Orders(S) == {p \in [1..Cardinality(S) -> S] : \A i, j \in 1..Cardinality(S) : i # j => p[i] # p[j]}

\* an observe_all that raises the keys self holds already and skips the others
MutantGlobalObserveAllKnownKeys(self, oth, order) ==
    [r \in DOMAIN self |-> IF r \in DOMAIN oth THEN CmpMax(self[r], oth[r]) ELSE self[r]]

\* Global::observe_all: observe every (replica_id, value) of other, in the order
\* `order` in which other's HashMap is iterated
RECURSIVE GlobalObserveAll(_, _, _)
GlobalObserveAll(self, oth, order) ==
    IF order = <<>> THEN self
    ELSE GlobalObserveAll(
             GlobalObserve(self, [replica_id |-> Head(order), value |-> oth[Head(order)]]),
             oth, Tail(order))

\* a write in place, through an Arc that another clock holds too
MutantArcWriteInPlace(new, alias, is_shared) ==
    [self |-> new, alias |-> IF is_shared THEN new ELSE alias, shared |-> is_shared]

\* Arc::make_mut(&mut self.0) and the write of the map `new` through it: an Arc
\* that another clock holds too is cloned first, so the write reaches self's map
\* alone.  Gives both clocks' maps after the write.
ArcWrite(new, alias, is_shared) == [self |-> new, alias |-> alias, shared |-> FALSE]

\* u64::cmp
U64Cmp(a, b) == IF a < b THEN "Less" ELSE IF a > b THEN "Greater" ELSE "Equal"

\* the loop of partial_cmp over the remaining keys; "None" is Rust's None, any
\* other result r is Some(r)
RECURSIVE PartialCmpFrom(_, _, _, _)
PartialCmpFrom(self, oth, keys, global_ordering) ==
    IF keys = <<>> THEN global_ordering
    ELSE LET ordering == U64Cmp(GlobalGet(self, Head(keys)), GlobalGet(oth, Head(keys)))
         IN IF ordering # "Equal"
            THEN IF global_ordering = "Equal"
                 THEN PartialCmpFrom(self, oth, Tail(keys), ordering)
                 ELSE IF ordering # global_ordering
                      THEN "None"
                      ELSE PartialCmpFrom(self, oth, Tail(keys), global_ordering)
            ELSE PartialCmpFrom(self, oth, Tail(keys), global_ordering)

\* a partial_cmp that iterates self's keys alone
MutantPartialCmpSelfKeys(self, oth, self_keys, other_keys) ==
    PartialCmpFrom(self, oth, self_keys, "Equal")

\* <Global as PartialOrd>::partial_cmp, with self's keys iterated in the order
\* self_keys and other's in the order other_keys (`self.0.keys().chain(other.0.keys())`)
PartialCmp(self, oth, self_keys, other_keys) ==
    PartialCmpFrom(self, oth, self_keys \o other_keys, "Equal")

\* a changed_since that also reports a coordinate the other clock has reached
MutantChangedSinceOrEqual(self, oth) ==
    \E replica_id \in DOMAIN self : self[replica_id] >= GlobalGet(oth, replica_id)

\* Global::changed_since: any entry of self above other's coordinate
GlobalChangedSince(self, oth) ==
    \E replica_id \in DOMAIN self : self[replica_id] > GlobalGet(oth, replica_id)

\* the derived PartialEq of Global: the two HashMaps hold the same entries
GlobalEq(self, oth) ==
    /\ DOMAIN self = DOMAIN oth
    /\ \A replica_id \in DOMAIN self : self[replica_id] = oth[replica_id]

\* Global::observed
GlobalObserved(self, timestamp) == GlobalGet(self, timestamp.replica_id) >= timestamp.value

\* every map Global::from_flatbuf can build (within the bounds)
AllGlobals == UNION {[K -> Seqs] : K \in SUBSET Replicas}
SeqLocal == [replica_id : Replicas, value : Seqs]

\* ReplicaId's Ord (Uuid: bytewise)
ReplicaIdCmp(a, b) == IF a < b THEN "Less" ELSE IF a > b THEN "Greater" ELSE "Equal"

\* an order on the value alone
MutantLamportCmpValueOnly(a, b) == U64Cmp(a.value, b.value)

\* Lamport's derived Ord: the fields in their order of declaration, value first
LamportCmp(a, b) ==
    IF U64Cmp(a.value, b.value) # "Equal"
    THEN U64Cmp(a.value, b.value)
    ELSE ReplicaIdCmp(a.replica_id, b.replica_id)

\* every timestamp Local::from_flatbuf / Lamport::from_flatbuf can decode
WireLocal == [replica_id : Replicas, value : U64]
WireLamport == [value : U64, replica_id : Replicas]

\* the record of a call: op names it, arg is its argument, pre the object before it,
\* ret what it returned, prev the timestamp the previous tick returned (<<>>: none)
Call(op, arg, pre, ret, panic, overflow, prev) ==
    [op |-> op, arg |-> arg, pre |-> pre, ret |-> ret,
     panic |-> panic, overflow |-> overflow, prev |-> prev]
NoCall == Call("none", 0, 0, 0, FALSE, FALSE, <<>>)

\* the variables of a system of replicas, in the specifications that have none
IdleLamportNet ==
    /\ lamports = [r \in Replicas |-> LamportNew(r)]
    /\ stamps = {}
    /\ reissued = {}
IdleReplicas ==
    /\ locals = [r \in Replicas |-> LocalNew(r)]
    /\ globals = [r \in Replicas |-> GlobalNew]
    /\ timestamps = {}

\* no operation has happened: known[r] are the stamps that happened before
\* replica r's next operation, before the pairs <<a, b>> of stamps with a before b
NoPast == [known |-> [r \in Replicas |-> {}], before |-> {}]

\* Network::new
NetworkNew == [inboxes |-> [r \in {} |-> <<>>], all_messages |-> <<>>]

IdleExtra ==
    /\ past = NoPast
    /\ input = 0
    /\ network = NetworkNew
    /\ hist = 0

\* ---------------------------------------------------------------------------
\* SpecClocks: the Local and the Lamport clock of replica Self, driven by any
\* sequence of tick and observe calls with any decodable argument.
\* ---------------------------------------------------------------------------
Self == CHOOSE r \in Replicas : \A q \in Replicas : r <= q

InitClocks ==
    /\ overflow_checks \in BOOLEAN
    /\ panicked = FALSE
    /\ last = NoCall
    /\ local = LocalNew(Self)
    /\ prev_tick = <<>>
    /\ observed_seq = -1
    /\ lamport = LamportNew(Self)
    /\ global = GlobalNew
    /\ other = GlobalNew
    /\ shared = FALSE
    /\ IdleLamportNet
    /\ IdleReplicas
    /\ IdleExtra

LocalTickCall ==
    /\ ~panicked
    /\ LET r == LocalTick(local, overflow_checks)
       IN /\ local' = r.self
          /\ panicked' = r.panic
          /\ prev_tick' = IF r.panic THEN prev_tick ELSE <<r.ret>>
          /\ last' = Call("Local::tick", 0, local, r.ret, r.panic, r.overflow, prev_tick)
    /\ UNCHANGED <<extraVars, overflow_checks, observed_seq, lamport, globalVars, lamportNetVars, replicaVars>>

LocalObserveCall ==
    /\ ~panicked
    /\ \E timestamp \in WireLocal :
         LET r == LocalObserve(local, timestamp, overflow_checks)
         IN /\ local' = r.self
            /\ panicked' = r.panic
            /\ observed_seq' = IF timestamp.replica_id = local.replica_id
                               THEN Max(observed_seq, timestamp.value) ELSE observed_seq
            /\ last' = Call("Local::observe", timestamp, local, 0, r.panic, r.overflow, prev_tick)
    /\ UNCHANGED <<extraVars, overflow_checks, prev_tick, lamport, globalVars, lamportNetVars, replicaVars>>

LamportTickCall ==
    /\ ~panicked
    /\ LET r == LamportTick(lamport, overflow_checks)
       IN /\ lamport' = r.self
          /\ panicked' = r.panic
          /\ last' = Call("Lamport::tick", 0, lamport, r.ret, r.panic, r.overflow, <<>>)
    /\ UNCHANGED <<extraVars, overflow_checks, local, prev_tick, observed_seq, globalVars, lamportNetVars, replicaVars>>

LamportObserveCall ==
    /\ ~panicked
    /\ \E timestamp \in WireLamport :
         LET r == LamportObserve(lamport, timestamp, overflow_checks)
         IN /\ lamport' = r.self
            /\ panicked' = r.panic
            /\ last' = Call("Lamport::observe", timestamp, lamport, 0, r.panic, r.overflow, <<>>)
    /\ UNCHANGED <<extraVars, overflow_checks, local, prev_tick, observed_seq, globalVars, lamportNetVars, replicaVars>>

NextClocks ==
    \/ LocalTickCall
    \/ LocalObserveCall
    \/ LamportTickCall
    \/ LamportObserveCall

SpecClocks == InitClocks /\ [][NextClocks]_vars

\* C1: every Local::tick returns the clock's current timestamp and increments
\* seq, and the seq it returns is greater than the seq the previous tick returned.
C1_TickStrictlyIncreasing ==
    last.op = "Local::tick" =>
        /\ ~last.panic
        /\ last.ret = last.pre
        /\ local.value = last.pre.value + 1
        /\ (last.prev # <<>> => last.ret.value > last.prev[1].value)

\* C3: Lamport::observe, and Local::observe of a timestamp of the clock's own
\* replica, complete without arithmetic overflow for every decodable argument,
\* and leave the clock's value greater than the observed value.
C3_ObserveNeverOverflows ==
    /\ last.op = "Lamport::observe" =>
          ~last.panic /\ ~last.overflow /\ lamport.value > last.arg.value
    /\ (last.op = "Local::observe" /\ last.arg.replica_id = last.pre.replica_id) =>
          ~last.panic /\ ~last.overflow /\ local.value > last.arg.value

\* C7: Lamport::observe(t) sets the value to max(old value, t.value) + 1, so the
\* value strictly increases, and leaves the replica id unchanged.
C7_LamportObserveMaxPlusOne ==
    last.op = "Lamport::observe" =>
        /\ ~last.panic
        /\ lamport.value = Max(last.pre.value, last.arg.value) + 1
        /\ lamport.value > last.pre.value
        /\ lamport.replica_id = last.pre.replica_id

\* C8: Local::observe(L') of the clock's own replica raises seq to
\* max(seq, L'.seq + 1), and every later tick returns a seq greater than L'.seq;
\* Local::observe of another replica's timestamp leaves the clock unchanged.
C8_LocalObserveRaisesSeq ==
    /\ last.op = "Local::observe" =>
          /\ ~last.panic
          /\ IF last.arg.replica_id = last.pre.replica_id
             THEN local = [last.pre EXCEPT !.value = Max(last.pre.value, last.arg.value + 1)]
             ELSE local = last.pre
    /\ last.op = "Local::tick" => ~last.panic /\ last.ret.value > observed_seq

\* ---------------------------------------------------------------------------
\* SpecGlobal: one Global clock, created by Global::new and driven by any
\* sequence of observe and observe_all calls, and queried with observed.
\* ---------------------------------------------------------------------------
InitGlobal ==
    /\ overflow_checks = FALSE
    /\ panicked = FALSE
    /\ last = NoCall
    /\ local = LocalNew(Self)
    /\ prev_tick = <<>>
    /\ observed_seq = -1
    /\ lamport = LamportNew(Self)
    /\ global = GlobalNew
    /\ other = GlobalNew
    /\ shared = FALSE
    /\ IdleLamportNet
    /\ IdleReplicas
    /\ IdleExtra

GlobalObserveCall ==
    /\ \E timestamp \in SeqLocal :
         LET w == ArcWrite(GlobalObserve(global, timestamp), other, shared)
         IN /\ global' = w.self
            /\ other' = w.alias
            /\ shared' = w.shared
            /\ last' = Call("Global::observe", timestamp, 0, 0, FALSE, FALSE, <<>>)
    /\ UNCHANGED <<extraVars, overflow_checks, panicked, clockVars, lamportNetVars, replicaVars>>

\* observe_all of a clock received from a peer (Global::from_flatbuf)
GlobalObserveAllCall ==
    /\ \E received \in AllGlobals : \E order \in Orders(DOMAIN received) :
         LET w == ArcWrite(GlobalObserveAll(global, received, order), other, shared)
         IN /\ global' = w.self
            /\ other' = w.alias
            /\ shared' = w.shared
            /\ last' = Call("Global::observe_all", 0, 0, 0, FALSE, FALSE, <<>>)
    /\ UNCHANGED <<extraVars, overflow_checks, panicked, clockVars, lamportNetVars, replicaVars>>

GlobalObservedCall ==
    /\ \E timestamp \in SeqLocal :
         last' = Call("Global::observed", timestamp, 0,
                      GlobalObserved(global, timestamp), FALSE, FALSE, <<>>)
    /\ UNCHANGED <<extraVars, overflow_checks, panicked, clockVars, globalVars, lamportNetVars, replicaVars>>

NextGlobal ==
    \/ GlobalObserveCall
    \/ GlobalObserveAllCall
    \/ GlobalObservedCall

SpecGlobal == InitGlobal /\ [][NextGlobal]_vars

\* C10: no coordinate of a Global ever decreases, so a timestamp once observed
\* stays observed; observed(L) is true exactly when the coordinate of L.replica
\* is >= L.seq, and it is true right after observe(L).
C10_GlobalOnlyGrows ==
    /\ [](last.op = "Global::observe" => GlobalObserved(global, last.arg))
    /\ [](last.op = "Global::observed" =>
            (last.ret <=> GlobalGet(global, last.arg.replica_id) >= last.arg.value))
    /\ [][/\ \A r \in Replicas : GlobalGet(global', r) >= GlobalGet(global, r)
          /\ \A t \in SeqLocal : GlobalObserved(global, t) => GlobalObserved(global', t)]_vars

\* a later observe of a smaller seq of the same replica has left an observed
\* timestamp observed
C10_Witness ==
    /\ last.op = "Global::observe"
    /\ GlobalGet(global, last.arg.replica_id) > last.arg.value
    /\ \E r \in Replicas : r # last.arg.replica_id /\ GlobalGet(global, r) > 0

\* ---------------------------------------------------------------------------
\* SpecGlobalCall: one call on a Global clock `self` with a second clock `other`,
\* from every state two clocks can be in (every map is built by observe calls or
\* by Global::from_flatbuf; two clocks share their Arc when one is a clone of the
\* other, and then hold the same map).
\* ---------------------------------------------------------------------------
InitGlobalCall ==
    /\ overflow_checks = FALSE
    /\ panicked = FALSE
    /\ last = NoCall
    /\ local = LocalNew(Self)
    /\ prev_tick = <<>>
    /\ observed_seq = -1
    /\ lamport = LamportNew(Self)
    /\ global \in AllGlobals
    /\ other \in AllGlobals
    /\ shared \in BOOLEAN
    /\ shared => other = global
    /\ IdleLamportNet
    /\ IdleReplicas
    /\ IdleExtra

Pre == [self |-> global, other |-> other, shared |-> shared]

\* self.observe(timestamp)
CallObserve ==
    /\ last.op = "none"
    /\ \E timestamp \in SeqLocal :
         LET w == ArcWrite(GlobalObserve(global, timestamp), other, shared)
         IN /\ global' = w.self
            /\ other' = w.alias
            /\ shared' = w.shared
            /\ last' = Call("Global::observe", timestamp, Pre, 0, FALSE, FALSE, <<>>)
    /\ UNCHANGED <<extraVars, overflow_checks, panicked, clockVars, lamportNetVars, replicaVars>>

\* self.observe_all(&other)
CallObserveAll ==
    /\ last.op = "none"
    /\ \E order \in Orders(DOMAIN other) :
         LET w == ArcWrite(GlobalObserveAll(global, other, order), other, shared)
         IN /\ global' = w.self
            /\ other' = w.alias
            /\ shared' = w.shared
            /\ last' = Call("Global::observe_all", 0, Pre, 0, FALSE, FALSE, <<>>)
    /\ UNCHANGED <<extraVars, overflow_checks, panicked, clockVars, lamportNetVars, replicaVars>>

\* self.partial_cmp(&other)
CallPartialCmp ==
    /\ last.op = "none"
    /\ \E self_keys \in Orders(DOMAIN global) : \E other_keys \in Orders(DOMAIN other) :
         last' = Call("Global::partial_cmp", 0, Pre,
                      PartialCmp(global, other, self_keys, other_keys), FALSE, FALSE, <<>>)
    /\ UNCHANGED <<extraVars, overflow_checks, panicked, clockVars, globalVars, lamportNetVars, replicaVars>>

\* self.changed_since(&other), next to self.partial_cmp(&other),
\* self.changed_since(&self) and, for a clone `it` of self that has absorbed other
\* with observe_all, other.changed_since(&it)
CallChangedSince ==
    /\ last.op = "none"
    /\ \E self_keys \in Orders(DOMAIN global) : \E other_keys \in Orders(DOMAIN other) :
         last' = Call("Global::changed_since", 0, Pre,
                      [changed |-> GlobalChangedSince(global, other),
                       ordering |-> PartialCmp(global, other, self_keys, other_keys),
                       since_self |-> GlobalChangedSince(global, global),
                       since_absorbed |->
                           GlobalChangedSince(other, GlobalObserveAll(global, other, other_keys))],
                      FALSE, FALSE, <<>>)
    /\ UNCHANGED <<extraVars, overflow_checks, panicked, clockVars, globalVars, lamportNetVars, replicaVars>>

\* self == other, next to self.partial_cmp(&other)
CallEq ==
    /\ last.op = "none"
    /\ \E self_keys \in Orders(DOMAIN global) : \E other_keys \in Orders(DOMAIN other) :
         last' = Call("Global::eq", 0, Pre,
                      [eq |-> GlobalEq(global, other),
                       ordering |-> PartialCmp(global, other, self_keys, other_keys)],
                      FALSE, FALSE, <<>>)
    /\ UNCHANGED <<extraVars, overflow_checks, panicked, clockVars, globalVars, lamportNetVars, replicaVars>>

NextGlobalCall ==
    \/ CallObserve
    \/ CallObserveAll
    \/ CallPartialCmp
    \/ CallChangedSince
    \/ CallEq

SpecGlobalCall == InitGlobalCall /\ [][NextGlobalCall]_vars

\* A <= B: every coordinate of A is <= that of B, a missing key reading as 0
GlobalLeq(a, b) == \A r \in Replicas : GlobalGet(a, r) <= GlobalGet(b, r)

\* C4: partial_cmp(A, B) is Equal iff all coordinates are equal, Less iff all of
\* A's are <= B's and one is smaller, Greater symmetrically, None iff one is
\* larger and another smaller, a missing key reading as 0, whatever the order in
\* which the keys are iterated.
C4_PartialCmpByCoordinates ==
    last.op = "Global::partial_cmp" =>
        LET a == last.pre.self
            b == last.pre.other
            less == \E r \in Replicas : GlobalGet(a, r) < GlobalGet(b, r)
            greater == \E r \in Replicas : GlobalGet(a, r) > GlobalGet(b, r)
        IN /\ last.ret \in {"Equal", "Less", "Greater", "None"}
           /\ (last.ret = "Equal") <=> (~less /\ ~greater)
           /\ (last.ret = "Less") <=> (less /\ ~greater)
           /\ (last.ret = "Greater") <=> (greater /\ ~less)
           /\ (last.ret = "None") <=> (less /\ greater)

\* partial_cmp has answered None for two clocks neither of which holds the
\* other's larger key
C4_Witness ==
    /\ last.op = "Global::partial_cmp"
    /\ last.ret = "None"
    /\ \E r \in DOMAIN last.pre.other : r \notin DOMAIN last.pre.self
    /\ \E r \in DOMAIN last.pre.self : r \notin DOMAIN last.pre.other

\* C5: observe(L) sets the coordinate of L.replica to max(old coordinate, L.seq),
\* a missing coordinate reading as 0, and leaves every other coordinate unchanged.
C5_ObserveSetsMax ==
    last.op = "Global::observe" =>
        \A r \in Replicas :
            GlobalGet(global, r) =
                IF r = last.arg.replica_id
                THEN Max(GlobalGet(last.pre.self, r), last.arg.value)
                ELSE GlobalGet(last.pre.self, r)

\* observe has raised an existing coordinate while another replica's is not 0
C5_Witness ==
    /\ last.op = "Global::observe"
    /\ last.arg.replica_id \in DOMAIN last.pre.self
    /\ 0 < last.pre.self[last.arg.replica_id]
    /\ last.pre.self[last.arg.replica_id] < last.arg.value
    /\ \E r \in Replicas : r # last.arg.replica_id /\ GlobalGet(global, r) > 0

\* C6: self.observe_all(&other) leaves in self the per-coordinate maximum, which
\* is the least upper bound of the two clocks; other is not modified; merging a
\* clock with (a clone of) itself changes nothing; merging other into self and
\* self into other give the same coordinates.
C6_ObserveAllIsJoin ==
    last.op = "Global::observe_all" =>
        LET a == last.pre.self
            b == last.pre.other
        IN /\ \A r \in Replicas : GlobalGet(global, r) = Max(GlobalGet(a, r), GlobalGet(b, r))
           /\ GlobalLeq(a, global) /\ GlobalLeq(b, global)
           /\ \A c \in AllGlobals : (GlobalLeq(a, c) /\ GlobalLeq(b, c)) => GlobalLeq(global, c)
           /\ other = b
           /\ (a = b => global = a)
           /\ \A order \in Orders(DOMAIN a) : \A r \in Replicas :
                 GlobalGet(global, r) = GlobalGet(GlobalObserveAll(b, a, order), r)

\* observe_all has merged two concurrent clocks, other holding a key self lacked
C6_Witness ==
    /\ last.op = "Global::observe_all"
    /\ \E r \in Replicas : GlobalGet(last.pre.self, r) > GlobalGet(last.pre.other, r)
    /\ \E r \in DOMAIN last.pre.other :
         r \notin DOMAIN last.pre.self /\ last.pre.other[r] > 0
    /\ global # last.pre.self /\ global # last.pre.other

\* ---------------------------------------------------------------------------
\* SpecLamportNet: the Lamport clocks of a system of replicas with pairwise
\* distinct ids; a replica ticks, or observes a stamp some replica has issued.
\* A clock is driven up to MaxLamport only: no run of the system makes the 2^64
\* steps that take a value to the largest u64.
\* ---------------------------------------------------------------------------
MaxLamport == 3

InitLamportNet ==
    /\ overflow_checks \in BOOLEAN
    /\ panicked = FALSE
    /\ last = NoCall
    /\ local = LocalNew(Self)
    /\ prev_tick = <<>>
    /\ observed_seq = -1
    /\ lamport = LamportNew(Self)
    /\ global = GlobalNew
    /\ other = GlobalNew
    /\ shared = FALSE
    /\ IdleLamportNet
    /\ IdleReplicas
    /\ IdleExtra

NetLamportTick(r) ==
    /\ ~panicked
    /\ lamports[r].value <= MaxLamport
    /\ LET t == LamportTick(lamports[r], overflow_checks)
       IN /\ lamports' = [lamports EXCEPT ![r] = t.self]
          /\ panicked' = t.panic
          /\ stamps' = IF t.panic THEN stamps ELSE stamps \cup {t.ret}
          /\ reissued' = IF ~t.panic /\ t.ret \in stamps
                         THEN reissued \cup {t.ret} ELSE reissued
          /\ last' = Call("Lamport::tick", r, lamports[r], t.ret, t.panic, t.overflow, <<>>)
    /\ UNCHANGED <<extraVars, overflow_checks, clockVars, globalVars, replicaVars>>

NetLamportObserve(r) ==
    /\ ~panicked
    /\ \E timestamp \in stamps :
         /\ lamports[r].value <= MaxLamport
         /\ timestamp.value <= MaxLamport
         /\ LET t == LamportObserve(lamports[r], timestamp, overflow_checks)
            IN /\ lamports' = [lamports EXCEPT ![r] = t.self]
               /\ panicked' = t.panic
               /\ last' = Call("Lamport::observe", timestamp, lamports[r], 0,
                                t.panic, t.overflow, <<>>)
    /\ UNCHANGED <<extraVars, overflow_checks, clockVars, globalVars, stamps, reissued, replicaVars>>

NextLamportNet ==
    \/ \E r \in Replicas : NetLamportTick(r)
    \/ \E r \in Replicas : NetLamportObserve(r)

SpecLamportNet == InitLamportNet /\ [][NextLamportNet]_vars

\* C2: Lamport stamps are ordered lexicographically on (value, replica); no two
\* tick calls of the system return the same stamp, and of two issued stamps
\* exactly one is smaller than the other.
C2_StampsStrictTotalOrder ==
    /\ ~panicked
    /\ reissued = {}
    /\ \A a, b \in stamps :
         /\ (LamportCmp(a, b) = "Less") <=>
               (a.value < b.value \/ (a.value = b.value /\ a.replica_id < b.replica_id))
         /\ a # b => ((LamportCmp(a, b) = "Less") # (LamportCmp(b, a) = "Less"))
         /\ a # b => LamportCmp(a, b) # "Equal"

\* two replicas have issued stamps of the same value above 1, and four or more
\* stamps have been issued
C2_Witness ==
    /\ \E a, b \in stamps : a.value = b.value /\ a.replica_id # b.replica_id /\ a.value > 1
    /\ last.op = "Lamport::tick"
    /\ Cardinality(stamps) >= 4

\* ---------------------------------------------------------------------------
\* SpecReplicas: a system of replicas, each with a Local and a Global clock.  A
\* replica emits an operation (it ticks its Local clock and observes the
\* timestamp in its own Global), observes a timestamp another replica has
\* emitted, or merges the Global of another replica.  The replicas emit MaxEmits
\* operations in all.
\* ---------------------------------------------------------------------------
MaxEmits == 4

InitReplicas ==
    /\ overflow_checks \in BOOLEAN
    /\ panicked = FALSE
    /\ last = NoCall
    /\ local = LocalNew(Self)
    /\ prev_tick = <<>>
    /\ observed_seq = -1
    /\ lamport = LamportNew(Self)
    /\ global = GlobalNew
    /\ other = GlobalNew
    /\ shared = FALSE
    /\ IdleLamportNet
    /\ IdleReplicas
    /\ IdleExtra

\* replica r stamps an operation of its own
Emit(r) ==
    /\ ~panicked
    /\ Cardinality(timestamps) < MaxEmits
    /\ LET t == LocalTick(locals[r], overflow_checks)
       IN /\ locals' = [locals EXCEPT ![r] = t.self]
          /\ panicked' = t.panic
          /\ globals' = IF t.panic THEN globals
                        ELSE [globals EXCEPT ![r] = GlobalObserve(globals[r], t.ret)]
          /\ timestamps' = IF t.panic THEN timestamps ELSE timestamps \cup {t.ret}
    /\ UNCHANGED <<extraVars, overflow_checks, last, clockVars, globalVars, lamportNetVars>>

\* replica r observes in its Global a timestamp another replica has emitted
Receive(r) ==
    /\ ~panicked
    /\ \E timestamp \in timestamps :
         /\ timestamp.replica_id # r
         /\ globals' = [globals EXCEPT ![r] = GlobalObserve(globals[r], timestamp)]
    /\ UNCHANGED <<extraVars, overflow_checks, panicked, last, clockVars, globalVars, lamportNetVars,
                   locals, timestamps>>

\* replica r merges the Global clock of replica s
ReceiveAll(r) ==
    /\ ~panicked
    /\ \E s \in Replicas \ {r} : \E order \in Orders(DOMAIN globals[s]) :
         globals' = [globals EXCEPT ![r] = GlobalObserveAll(globals[r], globals[s], order)]
    /\ UNCHANGED <<extraVars, overflow_checks, panicked, last, clockVars, globalVars, lamportNetVars,
                   locals, timestamps>>

NextReplicas ==
    \/ \E r \in Replicas : Emit(r)
    \/ \E r \in Replicas : Receive(r)
    \/ \E r \in Replicas : ReceiveAll(r)

SpecReplicas == InitReplicas /\ [][NextReplicas]_vars

\* the highest seq replica r has emitted, 0 before its first tick
HighestEmitted(r) ==
    LET seqs == {t.value : t \in {x \in timestamps : x.replica_id = r}}
    IN IF seqs = {} THEN 0 ELSE CHOOSE m \in seqs : \A n \in seqs : n <= m

\* C9: the coordinate of a replica's Global for the replica itself is the
\* highest seq the replica has emitted, which is its Local's value - 1, and 0
\* before its first tick.
C9_OwnCoordinateIsHighestEmitted ==
    \A r \in Replicas :
        /\ GlobalGet(globals[r], r) = HighestEmitted(r)
        /\ GlobalGet(globals[r], r) = locals[r].value - 1
        /\ (\A t \in timestamps : t.replica_id # r) => GlobalGet(globals[r], r) = 0

\* a replica has emitted twice or more and has observed another replica, which
\* holds an older coordinate of it
C9_Witness ==
    \E r \in Replicas : \E s \in Replicas \ {r} :
        /\ HighestEmitted(r) >= 2
        /\ GlobalGet(globals[s], r) >= 1
        /\ GlobalGet(globals[s], r) < HighestEmitted(r)
        /\ GlobalGet(globals[r], s) >= 1

\* ---------------------------------------------------------------------------
\* SpecClone: a Global clock g (global) and a snapshot s (other) taken with
\* `s = g.clone()`, which shares g's Arc; both are then driven by observe and
\* observe_all calls.  last.pre holds whether the Arc was shared before the call.
\* ---------------------------------------------------------------------------
InitClone ==
    /\ overflow_checks = FALSE
    /\ panicked = FALSE
    /\ last = NoCall
    /\ local = LocalNew(Self)
    /\ prev_tick = <<>>
    /\ observed_seq = -1
    /\ lamport = LamportNew(Self)
    /\ global = GlobalNew
    /\ other = GlobalNew
    /\ shared = FALSE
    /\ IdleLamportNet
    /\ IdleReplicas
    /\ IdleExtra

\* s = g.clone(): the derived Clone clones the Arc, not the map
CloneG ==
    /\ other' = global
    /\ shared' = TRUE
    /\ last' = Call("s = g.clone", 0, shared, 0, FALSE, FALSE, <<>>)
    /\ UNCHANGED <<extraVars, overflow_checks, panicked, clockVars, global, lamportNetVars, replicaVars>>

\* g.observe(timestamp)
ObserveOnG ==
    /\ \E timestamp \in SeqLocal :
         LET w == ArcWrite(GlobalObserve(global, timestamp), other, shared)
         IN /\ global' = w.self
            /\ other' = w.alias
            /\ shared' = w.shared
    /\ last' = Call("g.observe", 0, shared, 0, FALSE, FALSE, <<>>)
    /\ UNCHANGED <<extraVars, overflow_checks, panicked, clockVars, lamportNetVars, replicaVars>>

\* s.observe(timestamp)
ObserveOnS ==
    /\ \E timestamp \in SeqLocal :
         LET w == ArcWrite(GlobalObserve(other, timestamp), global, shared)
         IN /\ other' = w.self
            /\ global' = w.alias
            /\ shared' = w.shared
    /\ last' = Call("s.observe", 0, shared, 0, FALSE, FALSE, <<>>)
    /\ UNCHANGED <<extraVars, overflow_checks, panicked, clockVars, lamportNetVars, replicaVars>>

\* g.observe_all(&s): every observe of the loop goes through Arc::make_mut
ObserveAllOnG ==
    /\ \E order \in Orders(DOMAIN other) :
         LET w == ArcWrite(GlobalObserveAll(global, other, order), other,
                           shared /\ order # <<>>)
         IN /\ global' = w.self
            /\ other' = w.alias
            /\ shared' = IF order = <<>> THEN shared ELSE w.shared
    /\ last' = Call("g.observe_all", 0, shared, 0, FALSE, FALSE, <<>>)
    /\ UNCHANGED <<extraVars, overflow_checks, panicked, clockVars, lamportNetVars, replicaVars>>

\* s.observe_all(&g)
ObserveAllOnS ==
    /\ \E order \in Orders(DOMAIN global) :
         LET w == ArcWrite(GlobalObserveAll(other, global, order), global,
                           shared /\ order # <<>>)
         IN /\ other' = w.self
            /\ global' = w.alias
            /\ shared' = IF order = <<>> THEN shared ELSE w.shared
    /\ last' = Call("s.observe_all", 0, shared, 0, FALSE, FALSE, <<>>)
    /\ UNCHANGED <<extraVars, overflow_checks, panicked, clockVars, lamportNetVars, replicaVars>>

NextClone ==
    \/ CloneG
    \/ ObserveOnG
    \/ ObserveOnS
    \/ ObserveAllOnG
    \/ ObserveAllOnS

SpecClone == InitClone /\ [][NextClone]_vars

\* C11: after s = g.clone(), an observe or observe_all call on g leaves every
\* coordinate (and the map) of s unchanged, and a call on s leaves g unchanged.
C11_CloneIsIndependent ==
    [][/\ last'.op \in {"g.observe", "g.observe_all"} =>
            /\ other' = other
            /\ \A r \in Replicas : GlobalGet(other', r) = GlobalGet(other, r)
       /\ last'.op \in {"s.observe", "s.observe_all"} =>
            /\ global' = global
            /\ \A r \in Replicas : GlobalGet(global', r) = GlobalGet(global, r)]_vars

\* g has been written while it shared its Arc with s, and now differs from s
C11_Witness ==
    /\ last.op = "g.observe"
    /\ last.pre = TRUE
    /\ ~shared
    /\ \E r \in Replicas : GlobalGet(global, r) > GlobalGet(other, r) /\ GlobalGet(other, r) > 0

\* ---------------------------------------------------------------------------
\* SpecEncoding: the flatbuffer encoding of replica ids and timestamps.
\* A byte holds 0..ByteMax and a u64 is U64Len bytes wide, so `x << i * 8` is
\* x * Base^i, `(n >> i * 8) as u8` is (n \div Base^i) % Base, and `|=` of a
\* shifted byte into the still empty digits above n is the addition of that digit.
\* A Uuid is the sequence of its bytes, bytes[0] first (index 1 here).
\* ---------------------------------------------------------------------------
ByteMax == 1
U64Len == 2
Bytes == 0..ByteMax
Base == ByteMax + 1

RECURSIVE Pow(_, _)
Pow(b, e) == IF e = 0 THEN 1 ELSE b * Pow(b, e - 1)

Uuids == [1..(U64Len + U64Len) -> Bytes]

\* a packing that puts bytes[0] in the most significant digit
RECURSIVE MutantU64FromBytesBigEndianLoop(_, _, _)
MutantU64FromBytesBigEndianLoop(bytes, i, n) ==
    IF i > U64Len THEN n
    ELSE MutantU64FromBytesBigEndianLoop(bytes, i + 1, n + bytes[i] * Pow(Base, U64Len - i))
MutantU64FromBytesBigEndian(bytes) == MutantU64FromBytesBigEndianLoop(bytes, 1, 0)

\* the loop of u64_from_bytes: for i in 0..8 { n |= (bytes[i] as u64) << i * 8 }
RECURSIVE u64_from_bytes_loop(_, _, _)
u64_from_bytes_loop(bytes, i, n) ==
    IF i > U64Len THEN n
    ELSE u64_from_bytes_loop(bytes, i + 1, n + bytes[i] * Pow(Base, i - 1))
u64_from_bytes(bytes) ==
    u64_from_bytes_loop(bytes, 1, 0)

\* for i in 0..8 { bytes[i] = (n >> i * 8) as u8 }
bytes_from_u64(n) ==
    [i \in 1..U64Len |-> (n \div Pow(Base, i - 1)) % Base]

\* the generated serialization structs: they hold the fields they were built from
SerializationReplicaId(first_8_bytes, last_8_bytes) ==
    [first_8_bytes |-> first_8_bytes, last_8_bytes |-> last_8_bytes]
SerializationTimestamp(value, replica_id) ==
    [value |-> value, replica_id |-> replica_id]

ReplicaIdToFlatbuf(self) ==
    SerializationReplicaId(u64_from_bytes(SubSeq(self, 1, U64Len)),
                           u64_from_bytes(SubSeq(self, U64Len + 1, U64Len + U64Len)))
ReplicaIdFromFlatbuf(message) ==
    bytes_from_u64(message.first_8_bytes) \o bytes_from_u64(message.last_8_bytes)

LocalToFlatbuf(self) ==
    SerializationTimestamp(self.value, ReplicaIdToFlatbuf(self.replica_id))
LocalFromFlatbuf(message) ==
    [replica_id |-> ReplicaIdFromFlatbuf(message.replica_id), value |-> message.value]
LamportToFlatbuf(self) ==
    SerializationTimestamp(self.value, ReplicaIdToFlatbuf(self.replica_id))
LamportFromFlatbuf(message) ==
    [value |-> message.value, replica_id |-> ReplicaIdFromFlatbuf(message.replica_id)]

InitEncoding ==
    /\ overflow_checks = FALSE
    /\ panicked = FALSE
    /\ last = NoCall
    /\ local = LocalNew(Self)
    /\ prev_tick = <<>>
    /\ observed_seq = 0
    /\ lamport = LamportNew(Self)
    /\ global = GlobalNew
    /\ other = GlobalNew
    /\ shared = FALSE
    /\ IdleLamportNet
    /\ IdleReplicas
    /\ past = NoPast
    /\ input \in [value : U64, replica_id : Uuids]
    /\ network = NetworkNew
    /\ hist = 0

\* ReplicaId::from_flatbuf(&id.to_flatbuf()); pre is the message in between
CallReplicaIdRoundTrip ==
    /\ last.op = "none"
    /\ last' = Call("ReplicaId::from_flatbuf", input.replica_id,
                    ReplicaIdToFlatbuf(input.replica_id),
                    ReplicaIdFromFlatbuf(ReplicaIdToFlatbuf(input.replica_id)),
                    FALSE, FALSE, <<>>)
    /\ UNCHANGED <<extraVars, overflow_checks, panicked, clockVars, globalVars,
                   lamportNetVars, replicaVars>>

\* Local::from_flatbuf(&t.to_flatbuf())
CallLocalRoundTrip ==
    /\ last.op = "none"
    /\ last' = Call("Local::from_flatbuf", input, LocalToFlatbuf(input),
                    LocalFromFlatbuf(LocalToFlatbuf(input)), FALSE, FALSE, <<>>)
    /\ UNCHANGED <<extraVars, overflow_checks, panicked, clockVars, globalVars,
                   lamportNetVars, replicaVars>>

\* Lamport::from_flatbuf(&t.to_flatbuf())
CallLamportRoundTrip ==
    /\ last.op = "none"
    /\ last' = Call("Lamport::from_flatbuf", input, LamportToFlatbuf(input),
                    LamportFromFlatbuf(LamportToFlatbuf(input)), FALSE, FALSE, <<>>)
    /\ UNCHANGED <<extraVars, overflow_checks, panicked, clockVars, globalVars,
                   lamportNetVars, replicaVars>>

NextEncoding ==
    \/ CallReplicaIdRoundTrip
    \/ CallLocalRoundTrip
    \/ CallLamportRoundTrip

SpecEncoding == InitEncoding /\ [][NextEncoding]_vars

\* digit i (from 0) of the u64 n, a byte: bits 8i..8i+7 of the source's u64
Digit(n, i) == (n \div Pow(Base, i)) % Base

\* C12: decoding an encoded ReplicaId gives the id back, with byte i of each half
\* in digit i of that half's u64 (little-endian); hence a decoded encoded Local or
\* Lamport timestamp is the timestamp that was encoded.
C12_EncodingRoundTrips ==
    /\ last.op = "ReplicaId::from_flatbuf" =>
           /\ last.ret = last.arg
           /\ \A i \in 1..U64Len :
                  /\ Digit(last.pre.first_8_bytes, i - 1) = last.arg[i]
                  /\ Digit(last.pre.last_8_bytes, i - 1) = last.arg[U64Len + i]
    /\ last.op \in {"Local::from_flatbuf", "Lamport::from_flatbuf"} =>
           /\ last.ret.value = last.arg.value
           /\ last.ret.replica_id = last.arg.replica_id

\* a round trip of an id whose bytes differ inside a half and between the halves
C12_Witness ==
    /\ last.op = "ReplicaId::from_flatbuf"
    /\ last.arg[1] # last.arg[U64Len]
    /\ SubSeq(last.arg, 1, U64Len) # SubSeq(last.arg, U64Len + 1, U64Len + U64Len)
    /\ last.ret = last.arg

\* ---------------------------------------------------------------------------
\* SpecLamportCausal: the Lamport clocks of a system of replicas together with
\* the happens-before relation of the stamps they issue.  A stamp happens before
\* the later stamps of its replica and, once a replica has observed it, before
\* the later stamps of that replica, transitively.  MaxStamps stamps are issued,
\* a clock observes while its value is below MaxStamps and ticks up to MaxLamport.
\* ---------------------------------------------------------------------------
MaxStamps == 3

InitLamportCausal ==
    /\ overflow_checks \in BOOLEAN
    /\ panicked = FALSE
    /\ last = NoCall
    /\ local = LocalNew(Self)
    /\ prev_tick = <<>>
    /\ observed_seq = -1
    /\ lamport = LamportNew(Self)
    /\ global = GlobalNew
    /\ other = GlobalNew
    /\ shared = FALSE
    /\ IdleLamportNet
    /\ IdleReplicas
    /\ IdleExtra

CausalTick(r) ==
    /\ ~panicked
    /\ Cardinality(stamps) < MaxStamps
    /\ lamports[r].value <= MaxLamport
    /\ LET t == LamportTick(lamports[r], overflow_checks)
       IN /\ lamports' = [lamports EXCEPT ![r] = t.self]
          /\ panicked' = t.panic
          /\ stamps' = stamps \cup {t.ret}
          /\ past' = [known |-> [past.known EXCEPT ![r] = @ \cup {t.ret}],
                      before |-> past.before \cup {<<a, t.ret>> : a \in past.known[r]}]
          /\ last' = Call("Lamport::tick", r, 0, 0, t.panic, t.overflow, <<>>)
    /\ UNCHANGED <<input, network, hist, overflow_checks, clockVars, globalVars,
                   reissued, replicaVars>>

CausalObserve(r) ==
    /\ ~panicked
    /\ \E timestamp \in stamps :
         /\ lamports[r].value < MaxStamps
         /\ LET t == LamportObserve(lamports[r], timestamp, overflow_checks)
            IN /\ lamports' = [lamports EXCEPT ![r] = t.self]
               /\ panicked' = t.panic
               /\ past' = [past EXCEPT !.known[r] =
                              @ \cup {timestamp}
                                \cup {a \in stamps : <<a, timestamp>> \in past.before}]
               /\ last' = Call("Lamport::observe", r, 0, 0, t.panic, t.overflow, <<>>)
    /\ UNCHANGED <<input, network, hist, overflow_checks, clockVars, globalVars,
                   stamps, reissued, replicaVars>>

NextLamportCausal ==
    \/ \E r \in Replicas : CausalTick(r)
    \/ \E r \in Replicas : CausalObserve(r)

SpecLamportCausal == InitLamportCausal /\ [][NextLamportCausal]_vars

\* C14: Lamport clocks respect causality: a stamp a replica's tick returns is
\* greater, in (value, replica) order, than every stamp the replica observed or
\* issued before, so a stamp that happens before another is the smaller one; and
\* whatever a replica has observed is below the stamp its next tick returns.
C14_LamportRespectsCausality ==
    /\ ~panicked
    /\ \A p \in past.before : LamportCmp(p[1], p[2]) = "Less"
    /\ \A r \in Replicas : \A t \in past.known[r] :
           LamportCmp(t, LamportTick(lamports[r], overflow_checks).ret) = "Less"

\* a stamp happens before a stamp of another replica that never observed it
\* itself: the order was carried there through a third stamp
C14_Witness ==
    \E p \in past.before :
        /\ p[1].replica_id # p[2].replica_id
        /\ \E q \in stamps :
              /\ q # p[1] /\ q # p[2]
              /\ <<p[1], q>> \in past.before
              /\ <<q, p[2]>> \in past.before
        /\ LamportCmp(p[1], p[2]) = "Less"

\* ---------------------------------------------------------------------------
\* SpecNetwork: the tests' Network<T>.  The messages a caller broadcasts are
\* pairwise distinct: message k is the k-th one appended to all_messages.
\* MaxMessages messages are broadcast, and of the draws of the random number
\* generator those are taken that leave MaxEnvelopes envelopes or less in the
\* inboxes altogether.
\* hist is the history the properties are stated on.  A run that tracks "order"
\* records, per replica, the messages receive has returned to it (got) and each
\* message's sender (senders); a run that tracks "loss" records, per replica, the
\* messages other replicas have broadcast since it was last added that receive
\* has not returned to it yet (unreceived), and whether clear_unreceived was
\* called (cleared).
\* ---------------------------------------------------------------------------
MaxCopies == 3
MaxMessages == 2
MaxEnvelopes == 3

Envelope(message, sender) == [message |-> message, sender |-> sender]

NoHist(track) ==
    [track |-> track,
     got |-> [r \in Replicas |-> {}], senders |-> <<>>,
     unreceived |-> [r \in Replicas |-> {}], cleared |-> FALSE]

\* Vec::insert(index, element), index counted from 0
InsertAt(inbox, index, envelope) ==
    SubSeq(inbox, 1, index) \o <<envelope>> \o SubSeq(inbox, index + 1, Len(inbox))

\* a min_index that ignores the sender's earlier envelopes
MutantMinIndexZero(inbox, sender) == 0

\* min_index: one past the index of the last envelope of this sender, else 0
MinIndex(inbox, sender) ==
    LET found == {index \in 1..Len(inbox) : inbox[index].sender = sender}
    IN IF found = {} THEN 0
       ELSE CHOOSE index \in found : \A other_index \in found : other_index <= index

\* a number of duplicates that may be none
MutantCopiesFromZero == 0..MaxCopies

\* rng.gen_range(1, 4)
Copies == 1..MaxCopies

\* for _ in 0..copies: insert the envelope at rng.gen_range(min_index, inbox.len() + 1)
RECURSIVE InsertCopies(_, _, _, _)
InsertCopies(inbox, envelope, min_index, copies) ==
    IF copies = 0 THEN {inbox}
    ELSE IF Len(inbox) >= MaxEnvelopes THEN {}
    ELSE UNION {InsertCopies(InsertAt(inbox, insertion_index, envelope),
                             envelope, min_index, copies - 1) :
                    insertion_index \in min_index..Len(inbox)}

\* the body of `for message in &messages`, for every draw of the generator
RECURSIVE Deliver(_, _, _)
Deliver(inbox, sender, messages) ==
    IF messages = <<>> THEN {inbox}
    ELSE UNION {Deliver(delivered, sender, Tail(messages)) :
                    delivered \in UNION {InsertCopies(inbox, Envelope(Head(messages), sender),
                                                      MinIndex(inbox, sender), copies) :
                                             copies \in Copies}}

\* the loop over self.inboxes.iter_mut() of broadcast: the inboxes it can leave
RECURSIVE BroadcastInboxes(_, _, _, _)
BroadcastInboxes(inboxes, todo, sender, messages) ==
    IF todo = {} THEN {inboxes}
    ELSE LET replica == CHOOSE r \in todo : \A q \in todo : r <= q
             delivered == IF replica # sender
                          THEN Deliver(inboxes[replica], sender, messages)
                          ELSE {inboxes[replica]}
         IN UNION {BroadcastInboxes([inboxes EXCEPT ![replica] = inbox],
                                    todo \ {replica}, sender, messages) :
                       inbox \in delivered}

RECURSIVE Envelopes(_, _)
Envelopes(inboxes, todo) ==
    IF todo = {} THEN 0
    ELSE LET replica == CHOOSE r \in todo : TRUE
         IN Len(inboxes[replica]) + Envelopes(inboxes, todo \ {replica})

\* Network::is_idle
IsIdle(self) == \A replica \in DOMAIN self.inboxes : self.inboxes[replica] = <<>>

\* Network::has_unreceived
HasUnreceived(self, receiver) == self.inboxes[receiver] # <<>>

Range(s) == {s[i] : i \in 1..Len(s)}

InitNetwork ==
    /\ overflow_checks = FALSE
    /\ panicked = FALSE
    /\ last = NoCall
    /\ local = LocalNew(Self)
    /\ prev_tick = <<>>
    /\ observed_seq = -1
    /\ lamport = LamportNew(Self)
    /\ global = GlobalNew
    /\ other = GlobalNew
    /\ shared = FALSE
    /\ IdleLamportNet
    /\ IdleReplicas
    /\ past = NoPast
    /\ input = 0
    /\ network = NetworkNew
    /\ hist = NoHist("loss")

InitNetworkOrder ==
    /\ overflow_checks = FALSE
    /\ panicked = FALSE
    /\ last = NoCall
    /\ local = LocalNew(Self)
    /\ prev_tick = <<>>
    /\ observed_seq = -1
    /\ lamport = LamportNew(Self)
    /\ global = GlobalNew
    /\ other = GlobalNew
    /\ shared = FALSE
    /\ IdleLamportNet
    /\ IdleReplicas
    /\ past = NoPast
    /\ input = 0
    /\ network = NetworkNew
    /\ hist = NoHist("order")

\* Network::add_peer: BTreeMap::insert puts an empty inbox under id, also when
\* id has an inbox already
AddPeer(id) ==
    /\ network' = [network EXCEPT !.inboxes =
                      [replica \in DOMAIN network.inboxes \cup {id} |->
                          IF replica = id THEN <<>> ELSE network.inboxes[replica]]]
    /\ hist' = [hist EXCEPT !.unreceived[id] = {}]
    /\ last' = Call("add_peer", id, 0, 0, FALSE, FALSE, <<>>)
    /\ UNCHANGED <<past, input, overflow_checks, panicked, clockVars, globalVars,
                   lamportNetVars, replicaVars>>

\* Network::broadcast of count new messages by sender
Broadcast(sender, count) ==
    LET sent == Len(network.all_messages)
        messages == [i \in 1..count |-> sent + i]
    IN /\ sent + count <= MaxMessages
       /\ \E inboxes \in BroadcastInboxes(network.inboxes, DOMAIN network.inboxes,
                                          sender, messages) :
              /\ Envelopes(inboxes, DOMAIN inboxes) <= MaxEnvelopes
              /\ network' = [inboxes |-> inboxes,
                             all_messages |-> network.all_messages \o messages]
       /\ hist' = IF hist.track = "order"
                  THEN [hist EXCEPT !.senders = @ \o [i \in 1..count |-> sender]]
                  ELSE [hist EXCEPT !.unreceived =
                           [replica \in Replicas |->
                               IF replica \in DOMAIN network.inboxes /\ replica # sender
                               THEN hist.unreceived[replica] \cup Range(messages)
                               ELSE hist.unreceived[replica]]]
       /\ last' = Call("broadcast", sender, 0, 0, FALSE, FALSE, <<>>)
       /\ UNCHANGED <<past, input, overflow_checks, panicked, clockVars, globalVars,
                      lamportNetVars, replicaVars>>

\* Network::receive: drains the first count envelopes and returns their messages
NetworkReceive(receiver) ==
    /\ receiver \in DOMAIN network.inboxes
    /\ LET inbox == network.inboxes[receiver]
       IN \E count \in 0..Len(inbox) :
            LET ret == [i \in 1..count |-> inbox[i].message]
            IN /\ network' = [network EXCEPT !.inboxes[receiver] =
                                 SubSeq(inbox, count + 1, Len(inbox))]
               /\ hist' = IF hist.track = "order"
                          THEN [hist EXCEPT !.got[receiver] = @ \cup Range(ret)]
                          ELSE [hist EXCEPT !.unreceived[receiver] = @ \ Range(ret)]
               /\ last' = Call("receive", receiver, 0, 0, FALSE, FALSE, <<>>)
    /\ UNCHANGED <<past, input, overflow_checks, panicked, clockVars, globalVars,
                   lamportNetVars, replicaVars>>

\* Network::clear_unreceived
ClearUnreceived(receiver) ==
    /\ receiver \in DOMAIN network.inboxes
    /\ network' = [network EXCEPT !.inboxes[receiver] = <<>>]
    /\ hist' = [hist EXCEPT !.cleared = (hist.track = "loss")]
    /\ last' = Call("clear_unreceived", receiver, 0, 0, FALSE, FALSE, <<>>)
    /\ UNCHANGED <<past, input, overflow_checks, panicked, clockVars, globalVars,
                   lamportNetVars, replicaVars>>

NextNetwork ==
    \/ \E id \in Replicas : AddPeer(id)
    \/ \E sender \in Replicas : \E count \in 1..MaxMessages : Broadcast(sender, count)
    \/ \E receiver \in Replicas : NetworkReceive(receiver)
    \/ \E receiver \in Replicas : ClearUnreceived(receiver)

SpecNetwork == InitNetwork /\ [][NextNetwork]_vars
SpecNetworkOrder == InitNetworkOrder /\ [][NextNetwork]_vars

\* message m1 was broadcast before m2 by the same sender
SentBefore(m1, m2) == m1 < m2 /\ hist.senders[m1] = hist.senders[m2]

\* in every inbox no copy of a sender's later message is ahead of a copy of an
\* earlier message of that sender
InboxesInSendOrder ==
    \A replica \in DOMAIN network.inboxes :
        LET inbox == network.inboxes[replica]
        IN \A i, j \in 1..Len(inbox) :
               SentBefore(inbox[j].message, inbox[i].message) => j < i

\* the messages the receive that has just been called returned: those of the
\* envelopes it drained from the receiver's inbox
Returned ==
    LET inbox == network.inboxes[last'.arg]
        count == Len(inbox) - Len(network'.inboxes[last'.arg])
    IN [i \in 1..count |-> inbox[i].message]

CountIn(m, inbox) == Cardinality({i \in 1..Len(inbox) : inbox[i].message = m})

\* the messages the broadcast that has just been called was given
Broadcasted ==
    SubSeq(network'.all_messages, Len(network.all_messages) + 1, Len(network'.all_messages))

\* a broadcast puts 1 to 3 copies of each of its messages into the inbox of every
\* registered peer but the sender, moves no envelope that was there, leaves the
\* sender's inbox alone and appends each message once to all_messages
BroadcastPlaces ==
    last'.op = "broadcast" =>
        /\ DOMAIN network'.inboxes = DOMAIN network.inboxes
        /\ network'.all_messages = network.all_messages \o Broadcasted
        /\ \A m \in Range(Broadcasted) :
               Cardinality({i \in 1..Len(network'.all_messages) :
                               network'.all_messages[i] = m}) = 1
        /\ \A replica \in DOMAIN network.inboxes :
               IF replica = last'.arg
               THEN network'.inboxes[replica] = network.inboxes[replica]
               ELSE /\ \A m \in Range(Broadcasted) :
                          CountIn(m, network'.inboxes[replica]) \in 1..MaxCopies
                    /\ SelectSeq(network'.inboxes[replica],
                                 LAMBDA envelope : envelope.message \notin Range(Broadcasted))
                           = network.inboxes[replica]
                    /\ \A i \in 1..Len(network'.inboxes[replica]) :
                          network'.inboxes[replica][i].message \in Range(Broadcasted)
                              => network'.inboxes[replica][i].sender = last'.arg

\* a copy has left an inbox in this step only if the step is one of ops, called
\* for the replica the inbox belongs to
LeavesOnlyBy(ops) ==
    \A replica \in DOMAIN network.inboxes : \A m \in Range(network.all_messages) :
        (replica \notin DOMAIN network'.inboxes
         \/ CountIn(m, network'.inboxes[replica]) < CountIn(m, network.inboxes[replica]))
            => last'.op \in ops /\ last'.arg = replica

\* as long as clear_unreceived was not called, an idle network owes no replica a
\* message
IdleMeansReceived ==
    (~hist.cleared /\ IsIdle(network)) =>
        \A replica \in DOMAIN network.inboxes : hist.unreceived[replica] = {}

\* C18 as stated: a broadcast places 1 to 3 copies with every other registered
\* peer and none with the sender, and appends each message once to all_messages;
\* a copy leaves an inbox only by receive or clear_unreceived for that peer; and
\* without clear_unreceived an idle network has handed every peer every message
\* the others broadcast since it was added.
C18_AsStated ==
    /\ []IdleMeansReceived
    /\ [][BroadcastPlaces /\ LeavesOnlyBy({"receive", "clear_unreceived"})]_vars

\* C18, amended: as stated, except that a copy also leaves an inbox when add_peer
\* is called again for that peer, which replaces its inbox by an empty one; the
\* messages an idle network has handed a peer are those broadcast since the peer
\* was last added.
C18_NeitherLosesNorMisroutes ==
    /\ []IdleMeansReceived
    /\ [][BroadcastPlaces
          /\ LeavesOnlyBy({"receive", "clear_unreceived", "add_peer"})]_vars

\* a broadcast by a registered sender has just put three copies of its message
\* into another peer's inbox, after an earlier message
C18_Witness ==
    /\ last.op = "broadcast"
    /\ last.arg \in DOMAIN network.inboxes
    /\ Len(network.all_messages) > 1
    /\ \E replica \in DOMAIN network.inboxes :
           CountIn(Len(network.all_messages), network.inboxes[replica]) = MaxCopies

\* ---------------------------------------------------------------------------
\* changed_since and == of Global, checked under SpecGlobalCall
\* ---------------------------------------------------------------------------

\* C15: A.changed_since(B) is false exactly when A.partial_cmp(B) is Less or
\* Equal and true exactly when it is Greater or None (incomparable); a clock has
\* not changed since itself, and B has not changed since a clock that absorbed B
\* with observe_all.
C15_ChangedSinceIsNotLeq ==
    last.op = "Global::changed_since" =>
        /\ ~last.ret.changed <=> last.ret.ordering \in {"Less", "Equal"}
        /\ last.ret.changed <=> last.ret.ordering \in {"Greater", "None"}
        /\ ~last.ret.since_self
        /\ ~last.ret.since_absorbed

\* changed_since has answered true for two incomparable clocks, and false for
\* the second of them against the first one's join with it
C15_Witness ==
    /\ last.op = "Global::changed_since"
    /\ last.ret.changed
    /\ last.ret.ordering = "None"
    /\ last.pre.self # GlobalNew
    /\ ~last.ret.since_absorbed

\* C16: two clocks are == exactly when partial_cmp says Equal; observing a
\* timestamp the clock has observed already leaves it == to what it was.
C16_EqIffPartialCmpEqual ==
    /\ last.op = "Global::eq" => (last.ret.eq <=> last.ret.ordering = "Equal")
    /\ (last.op = "Global::observe" /\ GlobalObserved(last.pre.self, last.arg)) =>
           GlobalEq(global, last.pre.self)

\* ---------------------------------------------------------------------------
\* SpecToBytes: Lamport::to_bytes of two stamps whose replica ids are Uuids, i.e.
\* byte sequences, and whose values are u64s of U64Len bytes.  The ids are drawn
\* from the Uuids with one byte set at most.
\* ---------------------------------------------------------------------------
Words == 0..(Pow(Base, U64Len) - 1)

SparseUuids ==
    {id \in Uuids : Cardinality({i \in DOMAIN id : id[i] # 0}) <= 1}

\* the Ord of byte arrays and slices: lexicographic
RECURSIVE BytesCmp(_, _)
BytesCmp(a, b) ==
    IF a = <<>> /\ b = <<>> THEN "Equal"
    ELSE IF a = <<>> THEN "Less"
    ELSE IF b = <<>> THEN "Greater"
    ELSE IF Head(a) # Head(b) THEN U64Cmp(Head(a), Head(b))
    ELSE BytesCmp(Tail(a), Tail(b))

\* Uuid's Ord: that of its bytes
UuidCmp(a, b) == BytesCmp(a, b)

\* Lamport's derived Ord on stamps whose replica ids are Uuids
LamportUuidCmp(a, b) ==
    IF U64Cmp(a.value, b.value) # "Equal"
    THEN U64Cmp(a.value, b.value)
    ELSE UuidCmp(a.replica_id, b.replica_id)

\* u64::swap_bytes
SwapBytes(n) ==
    u64_from_bytes([i \in 1..U64Len |-> Digit(n, U64Len - i)])

\* a to_be that leaves the value as it is on every target
MutantToBeIdentity(n, little_endian) == n

\* u64::to_be: swap_bytes on a little-endian target, the identity on a big-endian one
ToBe(n, little_endian) == IF little_endian THEN SwapBytes(n) ELSE n

\* mem::transmute::<u64, [u8; 8]>: the bytes of n as the target stores them
Transmute(n, little_endian) ==
    IF little_endian
    THEN [i \in 1..U64Len |-> Digit(n, i - 1)]
    ELSE [i \in 1..U64Len |-> Digit(n, U64Len - i)]

\* Lamport::to_bytes
LamportToBytes(self, little_endian) ==
    Transmute(ToBe(self.value, little_endian), little_endian) \o self.replica_id

InitToBytes ==
    /\ overflow_checks = FALSE
    /\ panicked = FALSE
    /\ last = NoCall
    /\ local = LocalNew(Self)
    /\ prev_tick = <<>>
    /\ observed_seq = -1
    /\ lamport = LamportNew(Self)
    /\ global = GlobalNew
    /\ other = GlobalNew
    /\ shared = FALSE
    /\ IdleLamportNet
    /\ IdleReplicas
    /\ past = NoPast
    /\ input \in [a : [value : Words, replica_id : SparseUuids],
                  b : [value : Words, replica_id : SparseUuids]]
    /\ network = NetworkNew
    /\ hist = 0

\* a.to_bytes() and b.to_bytes(), on a little-endian or a big-endian target
CallToBytes ==
    /\ last.op = "none"
    /\ \E little_endian \in BOOLEAN :
         last' = Call("Lamport::to_bytes", input, 0,
                      [a |-> LamportToBytes(input.a, little_endian),
                       b |-> LamportToBytes(input.b, little_endian)],
                      FALSE, FALSE, <<>>)
    /\ UNCHANGED <<extraVars, overflow_checks, panicked, clockVars, globalVars,
                   lamportNetVars, replicaVars>>

NextToBytes == CallToBytes

SpecToBytes == InitToBytes /\ [][NextToBytes]_vars

\* C17: to_bytes writes the value big-endian into the first bytes and the bytes
\* of the replica id behind them; a stamp is smaller than another in the
\* (value, replica) order exactly when its bytes are lexicographically smaller,
\* and two stamps have the same bytes exactly when they are equal.
C17_ToBytesKeepsOrder ==
    last.op = "Lamport::to_bytes" =>
        LET a == last.arg.a
            b == last.arg.b
            bytes_a == last.ret.a
            bytes_b == last.ret.b
        IN /\ Len(bytes_a) = U64Len + Len(a.replica_id)
           /\ \A i \in 1..U64Len : bytes_a[i] = Digit(a.value, U64Len - i)
           /\ SubSeq(bytes_a, U64Len + 1, Len(bytes_a)) = a.replica_id
           /\ (LamportUuidCmp(a, b) = "Less") <=> (BytesCmp(bytes_a, bytes_b) = "Less")
           /\ (bytes_a = bytes_b) <=> (a.value = b.value /\ a.replica_id = b.replica_id)

\* the smaller of two stamps has the larger low byte in its value and the larger
\* replica id, and its bytes are the smaller ones
C17_Witness ==
    /\ last.op = "Lamport::to_bytes"
    /\ last.arg.a.value < last.arg.b.value
    /\ Digit(last.arg.a.value, 0) > Digit(last.arg.b.value, 0)
    /\ UuidCmp(last.arg.a.replica_id, last.arg.b.replica_id) = "Greater"
    /\ BytesCmp(last.ret.a, last.ret.b) = "Less"

\* ---------------------------------------------------------------------------
\* SpecLocalAdd: `+` and `+=` of Local timestamps, for every three timestamps
\* ---------------------------------------------------------------------------

\* an order that looks at the value before the replica id
MutantLocalCmpValueFirst(a, b) ==
    IF U64Cmp(a.value, b.value) # "Equal"
    THEN U64Cmp(a.value, b.value)
    ELSE ReplicaIdCmp(a.replica_id, b.replica_id)

\* Local's derived Ord: the fields in their order of declaration, replica_id first
LocalCmp(a, b) ==
    IF ReplicaIdCmp(a.replica_id, b.replica_id) # "Equal"
    THEN ReplicaIdCmp(a.replica_id, b.replica_id)
    ELSE U64Cmp(a.value, b.value)

\* <Local as Add<&Local>>::add: cmp::max(&self, other).clone(); cmp::max returns
\* its first argument when that is the greater one and its second otherwise
LocalAdd(self, oth) ==
    IF LocalCmp(self, oth) = "Greater" THEN self ELSE oth

\* <Local as AddAssign<&Local>>::add_assign: the value of self after it
LocalAddAssign(self, oth) ==
    IF LocalCmp(self, oth) = "Less" THEN oth ELSE self

InitLocalAdd ==
    /\ overflow_checks = FALSE
    /\ panicked = FALSE
    /\ last = NoCall
    /\ local = LocalNew(Self)
    /\ prev_tick = <<>>
    /\ observed_seq = -1
    /\ lamport = LamportNew(Self)
    /\ global = GlobalNew
    /\ other = GlobalNew
    /\ shared = FALSE
    /\ IdleLamportNet
    /\ IdleReplicas
    /\ past = NoPast
    /\ input \in [a : WireLocal, b : WireLocal, c : WireLocal]
    /\ network = NetworkNew
    /\ hist = 0

\* a + &b, `a += &b`, and the sums the algebraic laws compare
CallLocalAdd ==
    /\ last.op = "none"
    /\ last' = Call("Local::add", input, 0,
                    [sum |-> LocalAdd(input.a, input.b),
                     assigned |-> LocalAddAssign(input.a, input.b),
                     a_a |-> LocalAdd(input.a, input.a),
                     b_a |-> LocalAdd(input.b, input.a),
                     ab_c |-> LocalAdd(LocalAdd(input.a, input.b), input.c),
                     a_bc |-> LocalAdd(input.a, LocalAdd(input.b, input.c))],
                    FALSE, FALSE, <<>>)
    /\ UNCHANGED <<extraVars, overflow_checks, panicked, clockVars, globalVars,
                   lamportNetVars, replicaVars>>

NextLocalAdd == CallLocalAdd

SpecLocalAdd == InitLocalAdd /\ [][NextLocalAdd]_vars

\* C19: a + &b is the greater of a and b in the order that compares the replica
\* id first and the value second; `a += &b` leaves a + &b in a; the sum is
\* idempotent, commutative and associative.
C19_LocalAddIsMax ==
    last.op = "Local::add" =>
        LET a == last.arg.a
            b == last.arg.b
        IN /\ last.ret.sum =
                  IF a.replica_id > b.replica_id THEN a
                  ELSE IF a.replica_id < b.replica_id THEN b
                  ELSE IF a.value > b.value THEN a ELSE b
           /\ last.ret.assigned = last.ret.sum
           /\ last.ret.a_a = a
           /\ last.ret.b_a = last.ret.sum
           /\ last.ret.ab_c = last.ret.a_bc

\* the sum is the timestamp of the greater replica id although its value is the
\* smaller one, and a third timestamp lies between the two
C19_Witness ==
    /\ last.op = "Local::add"
    /\ last.arg.a.replica_id > last.arg.b.replica_id
    /\ last.arg.a.value < last.arg.b.value
    /\ last.ret.sum = last.arg.a
    /\ last.arg.c.replica_id = last.arg.b.replica_id
    /\ last.arg.c.value > last.arg.b.value
    /\ last.ret.ab_c = last.arg.a

====
